---- MODULE Spec2Model ----
(***************************************************************************)
(* Model of MolgStationAPI (src/molg_robot_api.py): an adapter that maps   *)
(* the JointPositionRobot contract onto a remote robot-control service     *)
(* reached over HTTP.  The adapter's state is three private flags and a    *)
(* default joint vector; every operation is one synchronous call that      *)
(* sends at most one HTTP request and either returns or raises.            *)
(*                                                                         *)
(* The remote service is the environment: each call draws the service's    *)
(* answer (transport failure, error status, or a 2xx body) from a small    *)
(* set.  The variables op, args, requests, response, outcome and pre       *)
(* record the last call as its caller and the service observe it.          *)
(***************************************************************************)
EXTENDS Integers, Sequences, FiniteSets, TLC

VARIABLES connected, ready_for_control, controlled, joint_positions,
          op, args, requests, response, outcome, pre,
          pc, acked, serialized

vars == <<connected, ready_for_control, controlled, joint_positions,
          op, args, requests, response, outcome, pre,
          pc, acked, serialized>>

\* The variables of the callers' threads (used by SpecThreads): where each
\* thread stands inside a call, the last lifecycle request the service
\* acknowledged, and whether the callers serialize their calls.
tvars == <<pc, acked, serialized>>

(* ------------------------------ bounds -------------------------------- *)

\* Joint and pose coordinates range over 0..MaxCoord.
MaxCoord == 1

\* step_count ranges over 0..MaxStepCount.
MaxStepCount == 2

\* The number of threads calling one adapter instance in SpecThreads.
NumThreads == 2

(* --------------------------- program constants ------------------------ *)

\* The robot is assumed to have six joints (np.zeros(6)).
JOINT_COUNT == 6

(* ------------------------------ values -------------------------------- *)

\* Python's Optional: None is the empty sequence, a value v is <<v>>.
None == << >>
Some(v) == <<v>>

\* A vector whose n coordinates are all c.
Vec(n, c) == [i \in 1..n |-> c]

\* The joint vectors callers pass: of the robot's length and one shorter.
JointVectors == {Vec(n, c) : n \in {JOINT_COUNT - 1, JOINT_COUNT}, c \in 0..MaxCoord}

\* End-effector poses (six coordinates).
Poses == {Vec(JOINT_COUNT, c) : c \in 0..MaxCoord}

\* numpy: ndarray.tolist() builds a Python list of the array's elements.
tolist(a) == [i \in 1..Len(a) |-> a[i]]

\* numpy: np.array(x) of a list is a one-dimensional array of its elements;
\* np.array(None) is a zero-dimensional object array holding None.
NpArray(x) == [ndim |-> 1, data |-> x]
NpArrayOfNone == [ndim |-> 0, data |-> << >>]

(* ----------------------- the remote service's answers ----------------- *)

\* A 2xx body, as response.json() sees it.  kind "empty" is a body that is
\* not JSON (json() raises); "null" is JSON null; "list" is a JSON value
\* that is not an object (extra: it is non-empty, so truthy); "dict" is an
\* object, fld the value of the key the operation looks up (None when the
\* key is missing) and extra whether it holds any other key.
Bodies(vals) ==
    {[kind |-> "empty", fld |-> None, extra |-> FALSE],
     [kind |-> "null", fld |-> None, extra |-> FALSE]}
    \cup {[kind |-> "list", fld |-> None, extra |-> e] : e \in BOOLEAN}
    \cup {[kind |-> "dict", fld |-> f, extra |-> e] :
             f \in {None} \cup {Some(v) : v \in vals}, e \in BOOLEAN}

NoBody == [kind |-> "empty", fld |-> None, extra |-> FALSE]

\* What the service does with one request: the transport fails, the status
\* is 4xx/5xx, or the status is 2xx with a body.
Responses(vals) ==
    {[status |-> "transport_error", body |-> NoBody],
     [status |-> "http_error", body |-> NoBody]}
    \cup {[status |-> "ok", body |-> b] : b \in Bodies(vals)}

NoResponse == [status |-> "none", body |-> NoBody]

\* Python truthiness of a decoded body (None, {} and [] are falsy).
Truthy(b) ==
    \/ b.kind = "dict" /\ (b.fld # None \/ b.extra)
    \/ b.kind = "list" /\ b.extra

\* dict.get(key, default) on a decoded object.
DictGet(b, default) == IF b.fld = None THEN default ELSE b.fld[1]

\* Only a decoded object has a .get attribute.
HasGet(b) == b.kind = "dict"

(* ------------------------------ transport ----------------------------- *)

Request(method, method_name, payload) ==
    [method |-> method, payload |-> payload, name |-> method_name]

\* Mutant of POST: an error status is swallowed and reported as no body.
POST_swallows_status(method_name, payload, r) ==
    LET sent == <<Request("POST", method_name, payload)>> IN
    IF r.status = "transport_error"
      THEN [sent |-> sent, raised |-> TRUE, exc |-> "ConnectionError", value |-> NoBody]
    ELSE IF r.status = "http_error"
      THEN [sent |-> sent, raised |-> FALSE, exc |-> "",
            value |-> [kind |-> "null", fld |-> None, extra |-> FALSE]]
    ELSE IF r.body.kind = "empty"
      THEN [sent |-> sent, raised |-> TRUE, exc |-> "JSONDecodeError", value |-> NoBody]
    ELSE [sent |-> sent, raised |-> FALSE, exc |-> "", value |-> r.body]

\* requests.post / raise_for_status / response.json().
POST(method_name, payload, r) ==
    LET sent == <<Request("POST", method_name, payload)>> IN
    IF r.status = "transport_error"
      THEN [sent |-> sent, raised |-> TRUE, exc |-> "ConnectionError", value |-> NoBody]
    ELSE IF r.status = "http_error"
      THEN [sent |-> sent, raised |-> TRUE, exc |-> "HTTPError", value |-> NoBody]
    ELSE IF r.body.kind = "empty"
      THEN [sent |-> sent, raised |-> TRUE, exc |-> "JSONDecodeError", value |-> NoBody]
    ELSE [sent |-> sent, raised |-> FALSE, exc |-> "", value |-> r.body]

\* requests.get / raise_for_status / response.json().
GET(method_name, r) ==
    LET sent == <<Request("GET", method_name, None)>> IN
    IF r.status = "transport_error"
      THEN [sent |-> sent, raised |-> TRUE, exc |-> "ConnectionError", value |-> NoBody]
    ELSE IF r.status = "http_error"
      THEN [sent |-> sent, raised |-> TRUE, exc |-> "HTTPError", value |-> NoBody]
    ELSE IF r.body.kind = "empty"
      THEN [sent |-> sent, raised |-> TRUE, exc |-> "JSONDecodeError", value |-> NoBody]
    ELSE [sent |-> sent, raised |-> FALSE, exc |-> "", value |-> r.body]

(* --------------------------- call bookkeeping ------------------------- *)

NoArgs == [none |-> TRUE]

Returned(v) == [kind |-> "returned", exc |-> "", ret |-> v]
Raised(e) == [kind |-> "raised", exc |-> e, ret |-> None]

Flags == [connected |-> connected,
          ready_for_control |-> ready_for_control,
          controlled |-> controlled]

\* One call of operation o with arguments a: it sent the requests reqs, the
\* service answered r, the call ended with out and left the flags c, rfc, ctl.
Finish(o, a, reqs, r, out, c, rfc, ctl) ==
    /\ op' = o
    /\ args' = a
    /\ requests' = reqs
    /\ response' = r
    /\ outcome' = out
    /\ pre' = Flags
    /\ connected' = c
    /\ ready_for_control' = rfc
    /\ controlled' = ctl
    /\ UNCHANGED joint_positions
    /\ UNCHANGED tvars

\* A call that ends without touching the flags.
Leave(o, a, reqs, r, out) ==
    Finish(o, a, reqs, r, out, connected, ready_for_control, controlled)

(* ------------------------------- threads ------------------------------ *)

Threads == 1..NumThreads

\* A thread that is inside no call.
Idle == [at |-> "idle", got |-> FALSE]

\* No lifecycle request has been acknowledged yet.
NoAck == [controlled |-> FALSE, req |-> "none"]

(* ------------------------------ __init__ ------------------------------ *)

Init ==
    /\ connected = FALSE
    /\ ready_for_control = FALSE
    /\ controlled = FALSE
    /\ joint_positions = Vec(JOINT_COUNT, 0)
    /\ op = "__init__"
    /\ args = NoArgs
    /\ requests = << >>
    /\ response = NoResponse
    /\ outcome = Returned(None)
    /\ pre = [connected |-> FALSE, ready_for_control |-> FALSE, controlled |-> FALSE]
    /\ pc = [t \in Threads |-> Idle]
    /\ acked = NoAck
    /\ serialized = TRUE

(* ------------------------- session state machine ---------------------- *)

\* Mutant of connect: any 2xx object response counts as connected.
connect_assumes_success ==
    \E r \in Responses(BOOLEAN) :
        LET p == POST("connect", None, r) IN
        IF p.raised
          THEN Leave("connect", NoArgs, p.sent, r, Raised(p.exc))
        ELSE IF ~HasGet(p.value)
          THEN Leave("connect", NoArgs, p.sent, r, Raised("AttributeError"))
        ELSE Finish("connect", NoArgs, p.sent, r, Returned(Some(TRUE)),
                    TRUE, ready_for_control, controlled)

\* connect(): adopts the "connected" value of the response and returns it.
connect ==
    \E r \in Responses(BOOLEAN) :
        LET p == POST("connect", None, r) IN
        IF p.raised
          THEN Leave("connect", NoArgs, p.sent, r, Raised(p.exc))
        ELSE IF ~HasGet(p.value)
          THEN Leave("connect", NoArgs, p.sent, r, Raised("AttributeError"))
        ELSE LET c == DictGet(p.value, FALSE) IN
             Finish("connect", NoArgs, p.sent, r, Returned(Some(c)),
                    c, ready_for_control, controlled)

\* disconnect(): adopts the "connected" value of the response.
disconnect ==
    \E r \in Responses(BOOLEAN) :
        LET p == POST("disconnect", None, r) IN
        IF p.raised
          THEN Leave("disconnect", NoArgs, p.sent, r, Raised(p.exc))
        ELSE IF ~HasGet(p.value)
          THEN Leave("disconnect", NoArgs, p.sent, r, Raised("AttributeError"))
        ELSE Finish("disconnect", NoArgs, p.sent, r, Returned(None),
                    DictGet(p.value, FALSE), ready_for_control, controlled)

\* Mutant of prepare_for_control: any 2xx object response counts as ready.
prepare_for_control_assumes_success ==
    \E r \in Responses(BOOLEAN) :
        LET p == POST("prepare_for_control", None, r) IN
        IF p.raised
          THEN Leave("prepare_for_control", NoArgs, p.sent, r, Raised(p.exc))
        ELSE IF ~HasGet(p.value)
          THEN Leave("prepare_for_control", NoArgs, p.sent, r, Raised("AttributeError"))
        ELSE Finish("prepare_for_control", NoArgs, p.sent, r, Returned(None),
                    connected, TRUE, controlled)

\* prepare_for_control(): adopts the "ready_for_control" value of the response.
prepare_for_control ==
    \E r \in Responses(BOOLEAN) :
        LET p == POST("prepare_for_control", None, r) IN
        IF p.raised
          THEN Leave("prepare_for_control", NoArgs, p.sent, r, Raised(p.exc))
        ELSE IF ~HasGet(p.value)
          THEN Leave("prepare_for_control", NoArgs, p.sent, r, Raised("AttributeError"))
        ELSE Finish("prepare_for_control", NoArgs, p.sent, r, Returned(None),
                    connected, DictGet(p.value, FALSE), controlled)

\* Mutant of is_ready_for_control: asks the service instead of the cache.
is_ready_for_control_remote ==
    \E r \in Responses(BOOLEAN) :
        LET p == GET("is_ready_for_control", r) IN
        IF p.raised
          THEN Leave("is_ready_for_control", NoArgs, p.sent, r, Raised(p.exc))
        ELSE IF ~HasGet(p.value)
          THEN Leave("is_ready_for_control", NoArgs, p.sent, r, Raised("AttributeError"))
        ELSE Leave("is_ready_for_control", NoArgs, p.sent, r,
                   Returned(Some(DictGet(p.value, FALSE))))

\* is_ready_for_control(): returns the cached flag; no request.
is_ready_for_control ==
    \E ready \in {ready_for_control} :
        Leave("is_ready_for_control", NoArgs, << >>, NoResponse, Returned(Some(ready)))

\* Mutant of take_control: refuses locally unless ready_for_control.
take_control_guarded ==
    \E r \in Responses(BOOLEAN) :
        LET p == POST("take_control", None, r) IN
        IF ~ready_for_control
          THEN Leave("take_control", NoArgs, << >>, NoResponse, Raised("RuntimeError"))
        ELSE IF p.raised
          THEN Leave("take_control", NoArgs, p.sent, r, Raised(p.exc))
        ELSE IF ~HasGet(p.value)
          THEN Leave("take_control", NoArgs, p.sent, r, Raised("AttributeError"))
        ELSE Finish("take_control", NoArgs, p.sent, r, Returned(None),
                    connected, ready_for_control, DictGet(p.value, FALSE))

\* take_control(): adopts the "controlled" value of the response.
take_control ==
    \E r \in Responses(BOOLEAN) :
        LET p == POST("take_control", None, r) IN
        IF p.raised
          THEN Leave("take_control", NoArgs, p.sent, r, Raised(p.exc))
        ELSE IF ~HasGet(p.value)
          THEN Leave("take_control", NoArgs, p.sent, r, Raised("AttributeError"))
        ELSE Finish("take_control", NoArgs, p.sent, r, Returned(None),
                    connected, ready_for_control, DictGet(p.value, FALSE))

\* Mutant of release_control: clears both flags before the request, so a
\* failed request leaves them cleared.
release_control_resets_first ==
    \E r \in Responses({}) :
        LET p == POST("release_control", None, r) IN
        IF p.raised
          THEN Finish("release_control", NoArgs, p.sent, r, Raised(p.exc),
                      connected, FALSE, FALSE)
        ELSE Finish("release_control", NoArgs, p.sent, r, Returned(None),
                    connected, FALSE, FALSE)

\* Mutant of release_control: clears controlled only.
release_control_keeps_ready ==
    \E r \in Responses({}) :
        LET p == POST("release_control", None, r) IN
        IF p.raised
          THEN Leave("release_control", NoArgs, p.sent, r, Raised(p.exc))
        ELSE Finish("release_control", NoArgs, p.sent, r, Returned(None),
                    connected, ready_for_control, FALSE)

\* release_control(): ignores the response body and clears both flags.
release_control ==
    \E r \in Responses({}) :
        LET p == POST("release_control", None, r) IN
        IF p.raised
          THEN Leave("release_control", NoArgs, p.sent, r, Raised(p.exc))
        ELSE Finish("release_control", NoArgs, p.sent, r, Returned(None),
                    connected, FALSE, FALSE)

(* ---------------------------- motion commands ------------------------- *)

\* Mutant of send_joint_positions: keeps a copy of the vector it sent
\* (self.__joint_positions = np.copy(joint_positions)).
send_joint_positions_retains ==
    \E jp \in JointVectors, step_count \in 0..MaxStepCount, r \in Responses({}) :
        LET a == [joint_positions |-> jp, step_count |-> step_count]
            p == POST("send_joint_positions",
                      Some([joint_positions |-> tolist(jp), step_count |-> step_count]), r)
        IN  IF p.raised
              THEN Leave("send_joint_positions", a, p.sent, r, Raised(p.exc))
              ELSE /\ op' = "send_joint_positions"
                   /\ args' = a
                   /\ requests' = p.sent
                   /\ response' = r
                   /\ outcome' = Returned(None)
                   /\ pre' = Flags
                   /\ joint_positions' = tolist(jp)
                   /\ UNCHANGED <<connected, ready_for_control, controlled>>
                   /\ UNCHANGED tvars

\* send_joint_positions(joint_positions, step_count).
send_joint_positions ==
    \E jp \in JointVectors, step_count \in 0..MaxStepCount, r \in Responses({}) :
        LET a == [joint_positions |-> jp, step_count |-> step_count]
            p == POST("send_joint_positions",
                      Some([joint_positions |-> tolist(jp), step_count |-> step_count]), r)
        IN  IF p.raised
              THEN Leave("send_joint_positions", a, p.sent, r, Raised(p.exc))
              ELSE Leave("send_joint_positions", a, p.sent, r, Returned(None))

\* Mutant of command_move: refuses locally unless controlled.
command_move_gated ==
    \E jp \in JointVectors, r \in Responses({}) :
        LET a == [joint_positions |-> jp]
            p == POST("command_move", Some([joint_positions |-> tolist(jp)]), r)
        IN  IF ~controlled
              THEN Leave("command_move", a, << >>, NoResponse, Raised("RuntimeError"))
            ELSE IF p.raised
              THEN Leave("command_move", a, p.sent, r, Raised(p.exc))
              ELSE Leave("command_move", a, p.sent, r, Returned(None))

\* command_move(joint_positions).
command_move ==
    \E jp \in JointVectors, r \in Responses({}) :
        LET a == [joint_positions |-> jp]
            p == POST("command_move", Some([joint_positions |-> tolist(jp)]), r)
        IN  IF p.raised
              THEN Leave("command_move", a, p.sent, r, Raised(p.exc))
              ELSE Leave("command_move", a, p.sent, r, Returned(None))

\* Mutant of command_stop: refuses locally unless controlled.
command_stop_gated ==
    \E r \in Responses({}) :
        LET p == POST("command_stop", None, r) IN
        IF ~controlled
          THEN Leave("command_stop", NoArgs, << >>, NoResponse, Raised("RuntimeError"))
        ELSE IF p.raised
          THEN Leave("command_stop", NoArgs, p.sent, r, Raised(p.exc))
          ELSE Leave("command_stop", NoArgs, p.sent, r, Returned(None))

\* command_stop().
command_stop ==
    \E r \in Responses({}) :
        LET p == POST("command_stop", None, r) IN
        IF p.raised
          THEN Leave("command_stop", NoArgs, p.sent, r, Raised(p.exc))
          ELSE Leave("command_stop", NoArgs, p.sent, r, Returned(None))

(* ------------------------- kinematics and safety ---------------------- *)

\* forward_kinematics(joint_positions): the pose as an array, None when the
\* decoded response is falsy.
forward_kinematics ==
    \E jp \in JointVectors, r \in Responses(Poses) :
        LET a == [joint_positions |-> jp]
            p == POST("forward_kinematics", Some([joint_positions |-> tolist(jp)]), r)
        IN  IF p.raised
              THEN Leave("forward_kinematics", a, p.sent, r, Raised(p.exc))
            ELSE IF ~Truthy(p.value)
              THEN Leave("forward_kinematics", a, p.sent, r, Returned(None))
            ELSE IF ~HasGet(p.value)
              THEN Leave("forward_kinematics", a, p.sent, r, Raised("AttributeError"))
            ELSE IF p.value.fld = None
              THEN Leave("forward_kinematics", a, p.sent, r, Returned(Some(NpArrayOfNone)))
            ELSE Leave("forward_kinematics", a, p.sent, r,
                       Returned(Some(NpArray(p.value.fld[1]))))

\* inverse_kinematics(end_effector_pose, joint_reference): joint_reference is
\* optional and sent as null when absent.
inverse_kinematics ==
    \E pose \in Poses,
       ref \in {None} \cup {Some(v) : v \in JointVectors},
       r \in Responses({Vec(JOINT_COUNT, 0)}) :
        LET a == [end_effector_pose |-> pose, joint_reference |-> ref]
            p == POST("inverse_kinematics",
                      Some([end_effector_pose |-> tolist(pose),
                            joint_reference |->
                                IF ref # None THEN Some(tolist(ref[1])) ELSE None]), r)
        IN  IF p.raised
              THEN Leave("inverse_kinematics", a, p.sent, r, Raised(p.exc))
            ELSE IF ~Truthy(p.value)
              THEN Leave("inverse_kinematics", a, p.sent, r, Returned(None))
            ELSE IF ~HasGet(p.value)
              THEN Leave("inverse_kinematics", a, p.sent, r, Raised("AttributeError"))
            ELSE IF p.value.fld = None
              THEN Leave("inverse_kinematics", a, p.sent, r, Returned(Some(NpArrayOfNone)))
            ELSE Leave("inverse_kinematics", a, p.sent, r,
                       Returned(Some(NpArray(p.value.fld[1]))))

\* are_joint_positions_safe(joint_positions): the "safe" value of the response.
are_joint_positions_safe ==
    \E jp \in JointVectors, r \in Responses(BOOLEAN) :
        LET a == [joint_positions |-> jp]
            p == POST("are_joint_positions_safe",
                      Some([joint_positions |-> tolist(jp)]), r)
        IN  IF p.raised
              THEN Leave("are_joint_positions_safe", a, p.sent, r, Raised(p.exc))
            ELSE IF ~HasGet(p.value)
              THEN Leave("are_joint_positions_safe", a, p.sent, r, Raised("AttributeError"))
            ELSE Leave("are_joint_positions_safe", a, p.sent, r,
                       Returned(Some(DictGet(p.value, FALSE))))

(* ---------------------------- metadata queries ------------------------ *)

\* The one model name the adapter declares.
SUPPORTED_MODELS == <<"MyRobot JointPosition">>

\* get_supported_models(): a fixed local list; no request.
get_supported_models ==
    \E models \in {SUPPORTED_MODELS} :
        Leave("get_supported_models", NoArgs, << >>, NoResponse, Returned(Some(models)))

\* get_joint_count(): the "joint_count" value of the response, 0 when missing.
get_joint_count ==
    \E r \in Responses({JOINT_COUNT}) :
        LET p == GET("get_joint_count", r) IN
        IF p.raised
          THEN Leave("get_joint_count", NoArgs, p.sent, r, Raised(p.exc))
        ELSE IF ~HasGet(p.value)
          THEN Leave("get_joint_count", NoArgs, p.sent, r, Raised("AttributeError"))
        ELSE Leave("get_joint_count", NoArgs, p.sent, r,
                   Returned(Some(DictGet(p.value, 0))))

\* The body shared by get_joint_speed_limits and get_joint_position_limits:
\* the "limits" list as an array, an empty array when the decoded response
\* is falsy or has no "limits".
get_limits(method_name, r) ==
    LET p == GET(method_name, r) IN
    IF p.raised
      THEN Leave(method_name, NoArgs, p.sent, r, Raised(p.exc))
    ELSE IF ~Truthy(p.value)
      THEN Leave(method_name, NoArgs, p.sent, r, Returned(Some(NpArray(<< >>))))
    ELSE IF ~HasGet(p.value)
      THEN Leave(method_name, NoArgs, p.sent, r, Raised("AttributeError"))
    ELSE Leave(method_name, NoArgs, p.sent, r,
               Returned(Some(NpArray(DictGet(p.value, << >>)))))

\* The "limits" lists the service reports.
Limits == {Vec(JOINT_COUNT, c) : c \in 0..MaxCoord}

get_joint_speed_limits ==
    \E r \in Responses(Limits) : get_limits("get_joint_speed_limits", r)

get_joint_position_limits ==
    \E r \in Responses(Limits) : get_limits("get_joint_position_limits", r)

(* -------------------------- hardware state accessor ------------------- *)

\* micropsi_integration_sdk.HardwareState(joint_positions=...).
HardwareState(jp) == [joint_positions |-> jp]

\* get_hardware_state(): a HardwareState when the decoded response is truthy
\* (its joint positions default to the adapter's own vector), else None.
get_hardware_state ==
    \E r \in Responses({Vec(JOINT_COUNT, 1)}) :
        LET p == GET("get_hardware_state", r) IN
        IF p.raised
          THEN Leave("get_hardware_state", NoArgs, p.sent, r, Raised(p.exc))
        ELSE IF ~Truthy(p.value)
          THEN Leave("get_hardware_state", NoArgs, p.sent, r, Returned(None))
        ELSE IF ~HasGet(p.value)
          THEN Leave("get_hardware_state", NoArgs, p.sent, r, Raised("AttributeError"))
        ELSE Leave("get_hardware_state", NoArgs, p.sent, r,
                   Returned(Some(HardwareState(
                       NpArray(DictGet(p.value, joint_positions))))))

\* clear_cached_hardware_state(): a request whose response is ignored.
clear_cached_hardware_state ==
    \E r \in Responses({}) :
        LET p == POST("clear_cached_hardware_state", None, r) IN
        IF p.raised
          THEN Leave("clear_cached_hardware_state", NoArgs, p.sent, r, Raised(p.exc))
          ELSE Leave("clear_cached_hardware_state", NoArgs, p.sent, r, Returned(None))

(* ---------------------------- specification --------------------------- *)

Next ==
    \/ connect
    \/ disconnect
    \/ prepare_for_control
    \/ is_ready_for_control
    \/ take_control
    \/ release_control
    \/ send_joint_positions
    \/ command_move
    \/ command_stop
    \/ forward_kinematics
    \/ inverse_kinematics
    \/ are_joint_positions_safe
    \/ get_supported_models
    \/ get_joint_count
    \/ get_joint_speed_limits
    \/ get_joint_position_limits
    \/ get_hardware_state
    \/ clear_cached_hardware_state

Spec == Init /\ [][Next]_vars

(* --------------------- two callers on one instance -------------------- *)
(* take_control and release_control as the interpreter runs them when     *)
(* several threads call one adapter: the blocking request is one step and *)
(* each assignment to a field is a step of its own, so another thread can *)
(* run between them.  acked records the last lifecycle request whose      *)
(* acknowledgement the transport accepted, with the controlled state it   *)
(* reports.  With serialized, a call starts only when no other call is in *)
(* progress (the callers' own mutex).                                     *)

AllIdle == \A t \in Threads : pc[t] = Idle

\* The callers' serialization: under it a call starts only from quiescence.
MayStart(t) == pc[t] = Idle /\ (serialized => AllIdle)

\* The adapter's fields the lifecycle steps below never assign, and the
\* record of the last sequential call.
ThreadFrame ==
    UNCHANGED <<connected, joint_positions, op, args, requests, response,
                outcome, pre, serialized>>

\* take_control, line 182: the request.  When POST or response.get raises,
\* the call ends here and nothing is assigned.
t_take_control_request(t) ==
    /\ MayStart(t)
    /\ \E r \in Responses(BOOLEAN) :
          LET p == POST("take_control", None, r) IN
          IF p.raised \/ ~HasGet(p.value)
            THEN UNCHANGED <<pc, acked>>
            ELSE /\ pc' = [pc EXCEPT ![t] =
                              [at |-> "take_control_183", got |-> DictGet(p.value, FALSE)]]
                 /\ acked' = [controlled |-> DictGet(p.value, FALSE), req |-> "take_control"]
    /\ UNCHANGED <<ready_for_control, controlled>>
    /\ ThreadFrame

\* take_control, line 183: self.__controlled = <the value got>.
t_take_control_assign(t) ==
    /\ pc[t].at = "take_control_183"
    /\ controlled' = pc[t].got
    /\ pc' = [pc EXCEPT ![t] = Idle]
    /\ UNCHANGED <<ready_for_control, acked>>
    /\ ThreadFrame

\* release_control, line 191: the request; its body is ignored.  When POST
\* raises, the call ends here and nothing is reset.
t_release_control_request(t) ==
    /\ MayStart(t)
    /\ \E r \in Responses({}) :
          LET p == POST("release_control", None, r) IN
          IF p.raised
            THEN UNCHANGED <<pc, acked>>
            ELSE /\ pc' = [pc EXCEPT ![t] = [at |-> "release_control_192", got |-> FALSE]]
                 /\ acked' = [controlled |-> FALSE, req |-> "release_control"]
    /\ UNCHANGED <<ready_for_control, controlled>>
    /\ ThreadFrame

\* Mutant of t_release_control_reset_controlled: line 192 is missing.
t_release_control_keeps_controlled(t) ==
    /\ pc[t].at = "release_control_192"
    /\ pc' = [pc EXCEPT ![t] = [at |-> "release_control_193", got |-> FALSE]]
    /\ UNCHANGED <<ready_for_control, controlled, acked>>
    /\ ThreadFrame

\* release_control, line 192: self.__controlled = False.
t_release_control_reset_controlled(t) ==
    /\ pc[t].at = "release_control_192"
    /\ controlled' = FALSE
    /\ pc' = [pc EXCEPT ![t] = [at |-> "release_control_193", got |-> FALSE]]
    /\ UNCHANGED <<ready_for_control, acked>>
    /\ ThreadFrame

\* release_control, line 193: self.__ready_for_control = False.
t_release_control_reset_ready(t) ==
    /\ pc[t].at = "release_control_193"
    /\ ready_for_control' = FALSE
    /\ pc' = [pc EXCEPT ![t] = Idle]
    /\ UNCHANGED <<controlled, acked>>
    /\ ThreadFrame

\* The threads start on an adapter that is freshly constructed or has been
\* connected and prepared; the callers either serialize their calls or not.
InitThreads ==
    /\ \E b \in BOOLEAN : connected = b /\ ready_for_control = b
    /\ controlled = FALSE
    /\ joint_positions = Vec(JOINT_COUNT, 0)
    /\ op = "__init__"
    /\ args = NoArgs
    /\ requests = << >>
    /\ response = NoResponse
    /\ outcome = Returned(None)
    /\ pre = [connected |-> FALSE, ready_for_control |-> FALSE, controlled |-> FALSE]
    /\ pc = [t \in Threads |-> Idle]
    /\ acked = NoAck
    /\ serialized \in BOOLEAN

NextThreads ==
    \E t \in Threads :
        \/ t_take_control_request(t)
        \/ t_take_control_assign(t)
        \/ t_release_control_request(t)
        \/ t_release_control_reset_controlled(t)
        \/ t_release_control_reset_ready(t)

SpecThreads == InitThreads /\ [][NextThreads]_vars

(* ------------------------------- claims ------------------------------- *)

\* The three flags as they were when the adapter was constructed.
Disconnected == [connected |-> FALSE, ready_for_control |-> FALSE, controlled |-> FALSE]

MotionOps == {"send_joint_positions", "command_move"}

\* The joint vector the last call took, None when it took none.
JointVectorArg ==
    IF op \in {"send_joint_positions", "command_move", "forward_kinematics",
               "are_joint_positions_safe"}
      THEN Some(args.joint_positions)
    ELSE IF op = "inverse_kinematics" THEN args.joint_reference
    ELSE None

\* C1 as stated: a motion command (send_joint_positions, command_move)
\* reaches the remote service only when the adapter was Controlled.
C1_MotionGatedByLifecycle ==
    (op \in MotionOps /\ requests # << >>) => pre.controlled

\* C1 as amended: a motion command sends exactly one POST to its own
\* operation, carrying the caller's joint positions, whatever the three
\* flags are; the adapter does not look at the controlled flag.
C1_MotionSentInEveryState ==
    op \in MotionOps =>
        /\ Len(requests) = 1
        /\ requests[1].method = "POST"
        /\ requests[1].name = op
        /\ requests[1].payload[1].joint_positions = args.joint_positions

\* C1 witness: command_move reached the service from a state that was not
\* Controlled.
C1_Witness ==
    /\ op = "command_move"
    /\ ~pre.controlled
    /\ Len(requests) = 1
    /\ outcome.kind = "returned"

\* C2: every call that takes a joint vector whose length differs from the
\* joint count raises ValidationError and sends nothing; with the right
\* length the request is sent, and send_joint_positions returns None.
C2_JointVectorLengthValidated ==
    JointVectorArg # None =>
        IF Len(JointVectorArg[1]) # JOINT_COUNT
          THEN /\ outcome.kind = "raised"
               /\ outcome.exc = "ValidationError"
               /\ requests = << >>
          ELSE /\ Len(requests) = 1
               /\ (op = "send_joint_positions" /\ outcome.kind = "returned"
                     => outcome.ret = None)

\* C3: take_control never enters Controlled from Disconnected or Connected
\* (ready_for_control false before the call).
C3_TakeControlNeverSkips ==
    (op = "take_control" /\ ~pre.ready_for_control /\ ~pre.controlled)
        => ~controlled

\* C4: after disconnect() returns, all three flags are false.
C4_DisconnectResetsAll ==
    (op = "disconnect" /\ outcome.kind = "returned")
        => (~connected /\ ~ready_for_control /\ ~controlled)

\* C5: a release_control that returns leaves controlled and
\* ready_for_control false and connected as it was; when the call before it
\* was a release_control that returned too, the flags do not change at all.
C5_ReleaseControlIdempotent ==
    [][(op' = "release_control" /\ outcome'.kind = "returned") =>
          /\ ~controlled'
          /\ ~ready_for_control'
          /\ connected' = connected
          /\ ((op = "release_control" /\ outcome.kind = "returned")
                => Flags' = Flags)]_vars

\* C5 witness: release_control returned from a Controlled adapter, on a 2xx
\* answer whose body is JSON null.
C5_Witness ==
    /\ op = "release_control"
    /\ outcome.kind = "returned"
    /\ pre.connected /\ pre.ready_for_control /\ pre.controlled
    /\ response.body.kind = "null"
    /\ connected /\ ~ready_for_control /\ ~controlled

\* C6: after connect() gets a 2xx JSON object, the connected flag and the
\* return value are both the object's "connected" value: true for true,
\* false for false and for a missing field.
C6_ConnectAdoptsReported ==
    (op = "connect" /\ response.status = "ok" /\ response.body.kind = "dict") =>
        /\ outcome.kind = "returned"
        /\ (response.body.fld = Some(TRUE)
              => connected /\ outcome.ret = Some(TRUE))
        /\ (response.body.fld \in {Some(FALSE), None}
              => ~connected /\ outcome.ret = Some(FALSE))

\* C6 witness: a connected adapter calls connect() again, the service
\* answers a 2xx object without "connected", and the adapter is no longer
\* connected.
C6_Witness ==
    /\ op = "connect"
    /\ pre.connected
    /\ response.status = "ok"
    /\ response.body.kind = "dict"
    /\ response.body.fld = None
    /\ ~connected
    /\ outcome = Returned(Some(FALSE))

\* C7: the flags always form one of the four lifecycle states: controlled
\* implies ready_for_control, and ready_for_control implies connected.
C7_OneLifecycleState ==
    /\ controlled => ready_for_control
    /\ ready_for_control => connected

\* C8: a prepare_for_control that returns sets the cached flag to the
\* response's "ready_for_control" value (false when missing);
\* is_ready_for_control returns the cached flag; and no call other than
\* prepare_for_control, release_control and disconnect changes it.
C8_ReadyFlagFollowsPrepare ==
    [][/\ (op' = "prepare_for_control" /\ outcome'.kind = "returned")
            => ready_for_control' = (response'.body.fld = Some(TRUE))
       /\ op' = "is_ready_for_control"
            => outcome' = Returned(Some(ready_for_control))
       /\ op' \notin {"prepare_for_control", "release_control", "disconnect"}
            => ready_for_control' = ready_for_control]_vars

\* C8 witness: is_ready_for_control returns true (the flag is true only
\* after a prepare_for_control answered ready_for_control = true).
C8_Witness ==
    /\ op = "is_ready_for_control"
    /\ outcome = Returned(Some(TRUE))
    /\ ready_for_control

\* C9: command_stop sends its POST, and leaves the three flags as they
\* were, in whatever lifecycle state it is called.
C9_StopNeverGated ==
    op = "command_stop" =>
        /\ requests = <<Request("POST", "command_stop", None)>>
        /\ Flags = pre

\* C9 witness: command_stop reached the service from a Disconnected adapter.
C9_Witness ==
    /\ op = "command_stop"
    /\ pre = Disconnected
    /\ Len(requests) = 1
    /\ outcome.kind = "returned"

\* C10: disconnect() called on a Disconnected adapter leaves the three
\* flags as they were.
C10_DisconnectFromDisconnectedNoop ==
    (op = "disconnect" /\ pre = Disconnected) => Flags = pre

\* C11: are_joint_positions_safe never raises on a 2xx JSON answer: it
\* returns true when the object carries safe = true, and false when it
\* carries safe = false, lacks "safe", or the response is JSON null.
C11_SafeDefaultsToFalse ==
    (op = "are_joint_positions_safe" /\ response.status = "ok"
        /\ response.body.kind \in {"null", "dict"})
        => outcome = Returned(Some(response.body.fld = Some(TRUE)))

\* C12: get_hardware_state returns None whenever a 2xx answer supplies no
\* joint positions (empty body, JSON null, an object without
\* "joint_positions"), and a HardwareState it returns carries the joint
\* positions of the answer.
C12_NoStateWithoutPositions ==
    (op = "get_hardware_state" /\ response.status = "ok"
        /\ response.body.kind \in {"empty", "null", "dict"})
        => IF response.body.fld = None
             THEN outcome = Returned(None)
             ELSE outcome = Returned(Some(HardwareState(NpArray(response.body.fld[1]))))

\* C13: on every 2xx answer get_joint_count, get_joint_speed_limits and
\* get_joint_position_limits return: the reported value when the body is
\* an object holding the field, else the default (0, an empty array).
C13_MetadataDefaults ==
    (op \in {"get_joint_count", "get_joint_speed_limits", "get_joint_position_limits"}
        /\ response.status = "ok")
        => LET reported == response.body.kind = "dict" /\ response.body.fld # None IN
           IF op = "get_joint_count"
             THEN outcome = Returned(Some(IF reported THEN response.body.fld[1] ELSE 0))
             ELSE outcome = Returned(Some(NpArray(
                      IF reported THEN response.body.fld[1] ELSE << >>)))

\* The operations that call the remote service.
RemoteOps ==
    {"connect", "disconnect", "prepare_for_control", "take_control",
     "release_control", "send_joint_positions", "command_move", "command_stop",
     "forward_kinematics", "inverse_kinematics", "are_joint_positions_safe",
     "get_joint_count", "get_joint_speed_limits", "get_joint_position_limits",
     "get_hardware_state", "clear_cached_hardware_state"}

\* The five lifecycle transitions.
LifecycleOps ==
    {"connect", "disconnect", "prepare_for_control", "take_control", "release_control"}

\* The service's answers that are failures of the request itself.
FailedStatus == {"transport_error", "http_error"}

\* C14: every call of an operation that uses the remote service sends
\* exactly one request, to its own operation; when the transport fails or
\* the status is not a success, the call raises the transport's exception
\* (the error category the specification names ServiceError) and does not
\* return.
C14_FailuresSurfaceOnce ==
    op \in RemoteOps =>
        /\ Len(requests) = 1
        /\ requests[1].name = op
        /\ response.status \in FailedStatus =>
              /\ outcome.kind = "raised"
              /\ outcome.exc \in {"ConnectionError", "HTTPError"}

\* C14 witness: a command_move whose request got an error status raised,
\* after one request.
C14_Witness ==
    /\ op = "command_move"
    /\ response.status = "http_error"
    /\ outcome = Raised("HTTPError")
    /\ Len(requests) = 1

\* C15: is_ready_for_control and get_supported_models send no request and
\* change no flag; the first returns the cached ready_for_control flag, the
\* second the fixed list of one model name.
C15_LocalQueries ==
    /\ op = "is_ready_for_control" =>
          /\ requests = << >>
          /\ Flags = pre
          /\ outcome = Returned(Some(ready_for_control))
    /\ op = "get_supported_models" =>
          /\ requests = << >>
          /\ Flags = pre
          /\ outcome = Returned(Some(<<"MyRobot JointPosition">>))
    /\ op \in {"is_ready_for_control", "get_supported_models"} =>
          joint_positions = Vec(JOINT_COUNT, 0)

\* C15 witness: is_ready_for_control answered true, from the cache, with no
\* request.
C15_Witness ==
    /\ op = "is_ready_for_control"
    /\ requests = << >>
    /\ pre.ready_for_control
    /\ outcome = Returned(Some(TRUE))

\* The operations that are no lifecycle transition and are named by C16.
NonLifecycleOps ==
    {"send_joint_positions", "command_move", "clear_cached_hardware_state",
     "get_hardware_state", "forward_kinematics", "inverse_kinematics",
     "are_joint_positions_safe", "get_supported_models", "get_joint_count",
     "get_joint_speed_limits", "get_joint_position_limits"}

\* C16: a step of a motion command, a hardware-state call, a kinematics or
\* safety query or a metadata read leaves connected, ready_for_control,
\* controlled and the adapter's joint vector as they were, whether the call
\* returns or raises.
C16_OnlyLifecycleMutates ==
    [][op' \in NonLifecycleOps =>
          /\ connected' = connected
          /\ ready_for_control' = ready_for_control
          /\ controlled' = controlled
          /\ joint_positions' = joint_positions]_vars

\* C16 witness: send_joint_positions returned in a Controlled adapter and
\* the adapter's joint vector is not the vector that was sent.
C16_Witness ==
    /\ op = "send_joint_positions"
    /\ outcome.kind = "returned"
    /\ controlled /\ pre.controlled
    /\ args.joint_positions # joint_positions

\* C17: forward_kinematics and inverse_kinematics return None when the 2xx
\* answer is an object without the field they look up.
C17_MissingFieldIsNoResult ==
    (op \in {"forward_kinematics", "inverse_kinematics"}
        /\ response.status = "ok"
        /\ response.body.kind = "dict"
        /\ response.body.fld = None)
        => outcome = Returned(None)

\* C18: take_control sends its request whatever the flags are; after a 2xx
\* JSON object it returns, controlled is the object's "controlled" value
\* (false when missing), and connected and ready_for_control are as before.
C18_TakeControlTrustsServer ==
    op = "take_control" =>
        /\ Len(requests) = 1
        /\ requests[1].method = "POST"
        /\ requests[1].name = "take_control"
        /\ (response.status = "ok" /\ response.body.kind = "dict") =>
              /\ outcome = Returned(None)
              /\ controlled = (response.body.fld = Some(TRUE))
              /\ connected = pre.connected
              /\ ready_for_control = pre.ready_for_control

\* C18 witness: take_control on an adapter that was not ready for control
\* and not controlled made it controlled.
C18_Witness ==
    /\ op = "take_control"
    /\ ~pre.ready_for_control
    /\ ~pre.controlled
    /\ response.body.fld = Some(TRUE)
    /\ controlled

\* C19: a lifecycle call whose request fails (transport failure or error
\* status) raises and leaves the three flags as they were.
C19_LifecycleAtomicOnFailure ==
    (op \in LifecycleOps /\ response.status \in FailedStatus)
        => (outcome.kind = "raised" /\ Flags = pre)

\* C19 witness: a release_control whose request got an error status raised
\* and left controlled and ready_for_control set.
C19_Witness ==
    /\ op = "release_control"
    /\ response.status = "http_error"
    /\ outcome.kind = "raised"
    /\ pre.ready_for_control /\ pre.controlled
    /\ ready_for_control /\ controlled

\* The service's last acknowledgement is a take_control with controlled true.
AckTakeTrue == [controlled |-> TRUE, req |-> "take_control"]

\* C20: without serialization, when a thread resets controlled in
\* release_control while the last request the service acknowledged is a
\* take_control with controlled = true whose flag update has already run
\* (controlled is true, every other thread is idle), the reset overwrites
\* it: controlled becomes false and the acknowledgement stands.  With the
\* calls serialized, whenever no call is in progress controlled equals the
\* outcome of the last acknowledged request.
C20_UnserializedResultOverwritten ==
    [][/\ \A t \in Threads :
            (/\ pc[t].at = "release_control_192"
             /\ pc'[t].at = "release_control_193"
             /\ acked = AckTakeTrue
             /\ controlled
             /\ \A u \in Threads \ {t} : pc[u] = Idle)
            => (~controlled' /\ acked' = AckTakeTrue)
       /\ (serialized' /\ AllIdle' /\ acked'.req # "none")
            => controlled' = acked'.controlled]_vars

\* C20 witness: the callers do not serialize; a thread has just reset
\* controlled in release_control, every other thread is idle, and the last
\* acknowledged request is a take_control with controlled = true.
C20_Witness ==
    /\ ~serialized
    /\ \E t \in Threads :
          /\ pc[t].at = "release_control_193"
          /\ \A u \in Threads \ {t} : pc[u] = Idle
    /\ acked = AckTakeTrue
    /\ ~controlled

====
